---- MODULE Spec2Model ----
(***************************************************************************)
(* The one-player craps game of "Lab 01 Craps/craps.py" as a state machine. *)
(*                                                                         *)
(* One process: main(args) dispatches on the command line to a single      *)
(* verbose game (playToWin), to the test loop (playToReplay until it       *)
(* returns False) or to computeOdds (playToWin numGames times).  A step of *)
(* a game is one call of roll2: the come-out roll with its classification, *)
(* or one iteration of the loop of point().                                *)
(***************************************************************************)
EXTENDS Integers, Sequences, FiniteSets

VARIABLES
    args,       \* sys.argv: <<program>>, <<program, command>> or <<program, "odds", text>>
    pc,         \* where main is: "main", "play", "test", "computeOdds", "exit", or "harness"
    exc,        \* the exception that ended the process, "none" while there is none
    numGames,   \* main's / computeOdds' numGames
    game,       \* iterations of `for game in range(numGames)` begun so far
    wins,       \* computeOdds' wins
    odds,       \* computeOdds' odds, the quotient as <<numerator, denominator>>
    reported,   \* computeOdds has printed games, wins and odds (lines 160-162)
    played,     \* history: games that have returned to their caller (saturates)
    throw1,     \* roll2's throw1 of the last roll (0 before the first roll)
    throw2,     \* roll2's throw2 of the last roll
    total,      \* roll2's sum of the last roll, as returned to the caller
    verbose,    \* the verbose argument of the game being played
    wpc,        \* playToWin: "idle", "comeOut", "point", "ret"
    wtarget,    \* playToWin's target (0 before the come-out)
    win,        \* playToWin's win
    wrolls,     \* history: rolls made by the current playToWin call (saturates)
    wmsg,       \* the result line playToWin printed, "" when none
    rpc,        \* playToReplay: "idle", "comeOut", "point", "ret"
    rtarget,    \* playToReplay's target
    replay,     \* playToReplay's replay
    rrolls,     \* history: rolls made by the current playToReplay call (saturates)
    rmsg        \* the result line playToReplay printed, "" when none

mainVars == <<args, pc, exc, numGames, game, wins, odds, reported, played>>
diceVars == <<throw1, throw2, total>>
wVars    == <<wpc, wtarget, win, wrolls, wmsg>>
rVars    == <<rpc, rtarget, replay, rrolls, rmsg>>
vars     == <<args, pc, exc, numGames, game, wins, odds, reported, played,
              throw1, throw2, total, verbose,
              wpc, wtarget, win, wrolls, wmsg,
              rpc, rtarget, replay, rrolls, rmsg>>

----------------------------------------------------------------------------
(* Bounds of the model *)

\* largest game count given on the command line, and where the counter of
\* returned games stops counting
MaxGames == 3
\* longest text given as the game count
MaxArgLen == 2
\* the roll counters of a game stop counting here
MaxRolls == 3

Min(a, b) == IF a < b THEN a ELSE b

----------------------------------------------------------------------------
(* int(args[2]): the text is a sequence of characters *)

DigitChars == <<"0", "1", "2", "3", "4", "5", "6", "7", "8", "9">>

IsDigit(c) == \E d \in 1..Len(DigitChars) : DigitChars[d] = c

DigitVal(c) == (CHOOSE d \in 1..Len(DigitChars) : DigitChars[d] = c) - 1

RECURSIVE LStrip(_)
LStrip(s) == IF Len(s) > 0 /\ s[1] = " " THEN LStrip(SubSeq(s, 2, Len(s))) ELSE s

RECURSIVE RStrip(_)
RStrip(s) == IF Len(s) > 0 /\ s[Len(s)] = " " THEN RStrip(SubSeq(s, 1, Len(s) - 1)) ELSE s

Strip(s) == RStrip(LStrip(s))

HasSign(s) == Len(s) > 0 /\ s[1] \in {"+", "-"}

Unsigned(s) == IF HasSign(s) THEN SubSeq(s, 2, Len(s)) ELSE s

RECURSIVE DigitsValue(_)
DigitsValue(u) ==
    IF Len(u) = 0 THEN 0
    ELSE 10 * DigitsValue(SubSeq(u, 1, Len(u) - 1)) + DigitVal(u[Len(u)])

\* int(s) returns: blanks around, an optional sign, then one or more digits
IsIntLiteral(s) ==
    LET u == Unsigned(Strip(s))
    IN  Len(u) > 0 /\ \A i \in 1..Len(u) : IsDigit(u[i])

\* the value int(s) returns when it returns
IntValue(s) ==
    LET t == Strip(s)
        v == DigitsValue(Unsigned(t))
    IN  IF HasSign(t) /\ t[1] = "-" THEN 0 - v ELSE v

----------------------------------------------------------------------------
(* The command lines the model runs *)

Prog == "craps.py"

Alphabet == {DigitChars[d + 1] : d \in 0..Min(MaxGames, 9)} \cup {"+", "-", " ", "x"}

Texts == UNION {[1..n -> Alphabet] : n \in 0..MaxArgLen}

OddsArgs == {s \in Texts : IsIntLiteral(s) => IntValue(s) <= MaxGames}

\* `odds` with no count runs DefaultNumGames games; the model leaves that
\* command line out and keeps the count small
Argv == {<<Prog>>, <<Prog, "test">>, <<Prog, "bet">>}
        \cup {<<Prog, "odds", a>> : a \in OddsArgs}

----------------------------------------------------------------------------
(* roll2 *)

Sides == 6

Die == 1..Sides

\* the first throw added to itself
RollSum_FirstTwice(t1, t2) == t1 + t1

RollSum(t1, t2) == t1 + t2

Roll2(d1, d2) ==
    /\ throw1' = d1
    /\ throw2' = d2
    /\ total' = RollSum(d1, d2)

(* comeOut: one roll, returned as the target *)
ComeOut(sum) == sum

(* point: the loop condition and the result *)
\* the loop looks for a 7 only
PointContinues_OnlySeven(tot, target) == tot # 7

PointContinues(tot, target) == (tot # 7) /\ (tot # target)

\* the result is whether the player sevened out
PointWin_Seven(tot, target) == tot = 7

PointWin(tot, target) == tot = target

----------------------------------------------------------------------------
(* playToWin *)

\* 11 is not taken for a natural
WinNatural_OnlySeven(target) == target = 7

WinNatural(target) == target = 7 \/ target = 11

\* 12 is not taken for a crap-out
WinCraps_NoTwelve(target) == target = 2 \/ target = 3

WinCraps(target) == target = 2 \/ target = 3 \/ target = 12

\* win = False; target = comeOut(verbose) is the next step
CallPlayToWin(v) ==
    /\ verbose' = v
    /\ wpc' = "comeOut"
    /\ wtarget' = 0
    /\ win' = FALSE
    /\ wrolls' = 0
    /\ wmsg' = ""

\* what playToWin does with the sum roll2 has just returned
PlayToWinStep(sum) ==
    /\ wrolls' = Min(wrolls + 1, MaxRolls)
    /\ IF wpc = "comeOut"
       THEN /\ wtarget' = ComeOut(sum)
            /\ IF WinNatural(wtarget')
               THEN /\ win' = TRUE
                    /\ wmsg' = IF verbose THEN "natural" ELSE wmsg
                    /\ wpc' = "ret"
               ELSE IF WinCraps(wtarget')
               THEN /\ win' = FALSE
                    /\ wmsg' = IF verbose THEN "craps" ELSE wmsg
                    /\ wpc' = "ret"
               ELSE /\ wpc' = "point"
                    /\ UNCHANGED <<win, wmsg>>
       ELSE /\ UNCHANGED wtarget
            /\ IF PointContinues(sum, wtarget)
               THEN UNCHANGED <<wpc, win, wmsg>>
               ELSE /\ win' = PointWin(sum, wtarget)
                    /\ wmsg' = IF ~verbose THEN wmsg
                               ELSE IF win' THEN "pass" ELSE "sevenout"
                    /\ wpc' = "ret"

(* playToReplay *)

ReplayNatural(target) == target = 7 \/ target = 11

\* 12 is not taken for a crap-out
ReplayCraps_NoTwelve(target) == target = 2 \/ target = 3

ReplayCraps(target) == target = 2 \/ target = 3 \/ target = 12

\* replay = False; target = comeOut(verbose) is the next step
CallPlayToReplay(v) ==
    /\ verbose' = v
    /\ rpc' = "comeOut"
    /\ rtarget' = 0
    /\ replay' = FALSE
    /\ rrolls' = 0
    /\ rmsg' = ""

\* what playToReplay does with the sum roll2 has just returned
PlayToReplayStep(sum) ==
    /\ rrolls' = Min(rrolls + 1, MaxRolls)
    /\ IF rpc = "comeOut"
       THEN /\ rtarget' = ComeOut(sum)
            /\ IF ReplayNatural(rtarget')
               THEN /\ replay' = FALSE
                    /\ rmsg' = IF verbose THEN "natural" ELSE rmsg
                    /\ rpc' = "ret"
               ELSE IF ReplayCraps(rtarget')
               THEN /\ replay' = TRUE
                    /\ rmsg' = IF verbose THEN "craps" ELSE rmsg
                    /\ rpc' = "ret"
               ELSE /\ rpc' = "point"
                    /\ UNCHANGED <<replay, rmsg>>
       ELSE /\ UNCHANGED rtarget
            /\ IF PointContinues(sum, rtarget)
               THEN UNCHANGED <<rpc, replay, rmsg>>
               ELSE /\ replay' = PointWin(sum, rtarget)
                    /\ rmsg' = IF ~verbose THEN rmsg
                               ELSE IF replay' THEN "pass" ELSE "sevenout"
                    /\ rpc' = "ret"

----------------------------------------------------------------------------
(* test and computeOdds *)

\* `while not replay:`
TestContinues_Negated(r) == ~r

\* `while replay:`
TestContinues(r) == r

RECURSIVE Gcd(_, _)
Gcd(a, b) == IF b = 0 THEN a ELSE Gcd(b, a % b)

Abs(a) == IF a < 0 THEN 0 - a ELSE a

\* wins / numGames as the division of two integers
Quotient_IntDiv(w, n) == <<w \div n, 1>>

\* wins / numGames, true division: the quotient in lowest terms (the rounding
\* of the float is left out); numGames # 0
Quotient(w, n) ==
    LET g == Gcd(Abs(w), Abs(n))
        sgn == IF n < 0 THEN 0 - 1 ELSE 1
    IN  <<(sgn * w) \div g, (sgn * n) \div g>>

DefaultNumGames == 1000

Played == Min(played + 1, MaxGames)

----------------------------------------------------------------------------
(* The process *)

Init ==
    /\ args \in Argv
    /\ pc = "main"
    /\ exc = "none"
    /\ numGames = 0
    /\ game = 0
    /\ wins = 0
    /\ odds = <<0, 1>>
    /\ reported = FALSE
    /\ played = 0
    /\ throw1 = 0
    /\ throw2 = 0
    /\ total = 0
    /\ verbose = FALSE
    /\ wpc = "idle"
    /\ wtarget = 0
    /\ win = FALSE
    /\ wrolls = 0
    /\ wmsg = ""
    /\ rpc = "idle"
    /\ rtarget = 0
    /\ replay = FALSE
    /\ rrolls = 0
    /\ rmsg = ""

\* main, no argument: playToWin( True )
MainPlay ==
    /\ pc = "main"
    /\ ~(Len(args) > 1)
    /\ pc' = "play"
    /\ CallPlayToWin(TRUE)
    /\ UNCHANGED <<args, exc, numGames, game, wins, odds, reported, played>>
    /\ UNCHANGED <<diceVars, rVars>>

\* main, "test": test() and its first playToReplay( True )
MainTest ==
    /\ pc = "main"
    /\ Len(args) > 1
    /\ args[2] = "test"
    /\ pc' = "test"
    /\ CallPlayToReplay(TRUE)
    /\ UNCHANGED <<args, exc, numGames, game, wins, odds, reported, played>>
    /\ UNCHANGED <<diceVars, wVars>>

\* main, "odds": numGames = 1000, then int( args[2] ) when given, then computeOdds
MainOdds ==
    /\ pc = "main"
    /\ Len(args) > 1
    /\ args[2] # "test"
    /\ args[2] = "odds"
    /\ IF Len(args) > 2 /\ ~IsIntLiteral(args[3])
       THEN /\ numGames' = DefaultNumGames
            /\ exc' = "ValueError"
            /\ pc' = "exit"
            /\ UNCHANGED <<game, wins>>
       ELSE /\ numGames' = IF Len(args) > 2 THEN IntValue(args[3]) ELSE DefaultNumGames
            /\ pc' = "computeOdds"
            /\ wins' = 0
            /\ game' = 0
            /\ UNCHANGED exc
    /\ UNCHANGED <<args, odds, reported, played, verbose>>
    /\ UNCHANGED <<diceVars, wVars, rVars>>

\* main, any other command: nothing is done
MainOther ==
    /\ pc = "main"
    /\ Len(args) > 1
    /\ args[2] # "test"
    /\ args[2] # "odds"
    /\ pc' = "exit"
    /\ UNCHANGED <<args, exc, numGames, game, wins, odds, reported, played, verbose>>
    /\ UNCHANGED <<diceVars, wVars, rVars>>

\* one roll2 of the running playToWin: the come-out, or one iteration of point
WinRoll ==
    /\ pc \in {"play", "computeOdds"}
    /\ wpc \in {"comeOut", "point"}
    /\ \E d1 \in Die, d2 \in Die :
          /\ Roll2(d1, d2)
          /\ PlayToWinStep(total')
    /\ UNCHANGED <<mainVars, verbose, rVars>>

\* one roll2 of the running playToReplay
ReplayRoll ==
    /\ pc = "test"
    /\ rpc \in {"comeOut", "point"}
    /\ \E d1 \in Die, d2 \in Die :
          /\ Roll2(d1, d2)
          /\ PlayToReplayStep(total')
    /\ UNCHANGED <<mainVars, verbose, wVars>>

\* main: playToWin( True ) has returned
PlayReturn ==
    /\ pc = "play"
    /\ wpc = "ret"
    /\ wpc' = "idle"
    /\ pc' = "exit"
    /\ played' = Played
    /\ UNCHANGED <<args, exc, numGames, game, wins, odds, reported, verbose>>
    /\ UNCHANGED <<diceVars, wtarget, win, wrolls, wmsg, rVars>>

\* test: replay is true, playToReplay( True ) again
TestAgain ==
    /\ pc = "test"
    /\ rpc = "ret"
    /\ TestContinues(replay)
    /\ played' = Played
    /\ CallPlayToReplay(TRUE)
    /\ UNCHANGED <<args, pc, exc, numGames, game, wins, odds, reported>>
    /\ UNCHANGED <<diceVars, wVars>>

\* test: replay is false, the loop ends
TestStop ==
    /\ pc = "test"
    /\ rpc = "ret"
    /\ ~TestContinues(replay)
    /\ played' = Played
    /\ rpc' = "idle"
    /\ pc' = "exit"
    /\ UNCHANGED <<args, exc, numGames, game, wins, odds, reported, verbose>>
    /\ UNCHANGED <<diceVars, rtarget, replay, rrolls, rmsg, wVars>>

\* computeOdds: the next game of range(numGames)
OddsCall ==
    /\ pc = "computeOdds"
    /\ wpc = "idle"
    /\ game < numGames
    /\ game' = game + 1
    /\ CallPlayToWin(FALSE)
    /\ UNCHANGED <<args, pc, exc, numGames, wins, odds, reported, played>>
    /\ UNCHANGED <<diceVars, rVars>>

\* computeOdds: playToWin( False ) has returned
OddsTally ==
    /\ pc = "computeOdds"
    /\ wpc = "ret"
    /\ wins' = IF win = TRUE THEN wins + 1 ELSE wins
    /\ played' = Played
    /\ wpc' = "idle"
    /\ UNCHANGED <<args, pc, exc, numGames, game, odds, reported, verbose>>
    /\ UNCHANGED <<diceVars, wtarget, win, wrolls, wmsg, rVars>>

\* computeOdds: range(numGames) is exhausted; odds = wins / numGames and the report
OddsFinish ==
    /\ pc = "computeOdds"
    /\ wpc = "idle"
    /\ ~(game < numGames)
    /\ IF numGames = 0
       THEN /\ exc' = "ZeroDivisionError"
            /\ UNCHANGED <<odds, reported>>
       ELSE /\ odds' = Quotient(wins, numGames)
            /\ reported' = TRUE
            /\ UNCHANGED exc
    /\ pc' = "exit"
    /\ UNCHANGED <<args, numGames, game, wins, played, verbose>>
    /\ UNCHANGED <<diceVars, wVars, rVars>>

Next ==
    \/ MainPlay
    \/ MainTest
    \/ MainOdds
    \/ MainOther
    \/ WinRoll
    \/ ReplayRoll
    \/ PlayReturn
    \/ TestAgain
    \/ TestStop
    \/ OddsCall
    \/ OddsTally
    \/ OddsFinish

Spec == Init /\ [][Next]_vars

----------------------------------------------------------------------------
(* A single game: main with no argument, with the fairness of the dice *)

PlayInit == Init /\ args = <<Prog>>

PlayNext == MainPlay \/ WinRoll \/ PlayReturn

\* a roll of point that ends its loop: the sum is 7 or the target
DecisiveRoll == WinRoll /\ wpc = "point" /\ total' \in {7, wtarget}

\* a roll of point that does not end its loop
ContinueRoll == WinRoll /\ wpc = "point" /\ wpc' = "point"

\* the process keeps running, and the dice do not avoid 7 and the target forever
FairSpec == PlayInit /\ [][PlayNext]_vars /\ WF_vars(PlayNext) /\ WF_vars(DecisiveRoll)

----------------------------------------------------------------------------
(* playToReplay and playToWin side by side, fed the same rolls *)

PairInit ==
    /\ args = <<Prog>>
    /\ pc = "harness"
    /\ exc = "none"
    /\ numGames = 0
    /\ game = 0
    /\ wins = 0
    /\ odds = <<0, 1>>
    /\ reported = FALSE
    /\ played = 0
    /\ throw1 = 0
    /\ throw2 = 0
    /\ total = 0
    /\ verbose = TRUE
    /\ wpc = "comeOut"
    /\ wtarget = 0
    /\ win = FALSE
    /\ wrolls = 0
    /\ wmsg = ""
    /\ rpc = "comeOut"
    /\ rtarget = 0
    /\ replay = FALSE
    /\ rrolls = 0
    /\ rmsg = ""

\* one roll, given to each of the two games that is still waiting for one
PairRoll ==
    /\ pc = "harness"
    /\ wpc \in {"comeOut", "point"} \/ rpc \in {"comeOut", "point"}
    /\ \E d1 \in Die, d2 \in Die :
          /\ Roll2(d1, d2)
          /\ IF wpc \in {"comeOut", "point"}
             THEN PlayToWinStep(total') ELSE UNCHANGED wVars
          /\ IF rpc \in {"comeOut", "point"}
             THEN PlayToReplayStep(total') ELSE UNCHANGED rVars
    /\ UNCHANGED <<mainVars, verbose>>

PairNext == PairRoll

PairSpec == PairInit /\ [][PairNext]_vars

----------------------------------------------------------------------------
(* Properties *)

PointSet == {4, 5, 6, 8, 9, 10}

IsOdds == Len(args) > 1 /\ args[2] = "odds"

IsTest == Len(args) > 1 /\ args[2] = "test"

\* C1: whenever playToWin's come-out sum is 7 or 11 the call has ended (it is
\* never in the point phase with such a target), with win true, after exactly
\* one roll, and with the natural's line as its report when verbose.
C1_NaturalWin ==
    wtarget \in {7, 11} =>
        /\ wpc \in {"ret", "idle"}
        /\ win = TRUE
        /\ wrolls = 1
        /\ (verbose => wmsg = "natural")

C1_Witness ==
    pc = "play" /\ wpc = "ret" /\ wtarget = 7 /\ total = 7 /\ win /\ wmsg = "natural"

\* C2: whenever playToWin's come-out sum is 2, 3 or 12 the call has ended (it is
\* never in the point phase with such a target), with win false, after exactly
\* one roll, and with the crap-out line as its report when verbose.
C2_CrapLoss ==
    wtarget \in {2, 3, 12} =>
        /\ wpc \in {"ret", "idle"}
        /\ win = FALSE
        /\ wrolls = 1
        /\ (verbose => wmsg = "craps")

C2_Witness ==
    pc = "play" /\ wpc = "ret" /\ wtarget = 12 /\ total = 12 /\ ~win /\ wmsg = "craps"

\* C3: playToWin is in the point phase only with a target in {4,5,6,8,9,10};
\* the come-out enters the point phase exactly on such a sum, with that sum as
\* the target; and each roll of the point phase ends the game with win true
\* when it equals the target, ends it with win false when it is 7, and
\* otherwise leaves the game in the point phase with the same target.
C3_PointPhase ==
    /\ [](wpc = "point" => wtarget \in PointSet)
    /\ [][wpc = "comeOut" /\ wpc' # "comeOut" =>
            /\ (total' \in PointSet <=> wpc' = "point")
            /\ wtarget' = total']_vars
    /\ [][wpc = "point" =>
            /\ wtarget' = wtarget
            /\ total' = wtarget =>
                 wpc' = "ret" /\ win' = TRUE /\ (verbose => wmsg' = "pass")
            /\ total' = 7 =>
                 wpc' = "ret" /\ win' = FALSE /\ (verbose => wmsg' = "sevenout")
            /\ total' \notin {7, wtarget} =>
                 wpc' = "point" /\ win' = win /\ wmsg' = wmsg]_vars

\* come-out 4, a roll that is neither 7 nor 4, then 4
C3_Witness ==
    /\ pc = "play" /\ wpc = "ret" /\ wtarget = 4 /\ total = 4
    /\ wrolls = 3 /\ win /\ wmsg = "pass"

\* C4: fed the same rolls, playToReplay and playToWin are always at the same
\* place with the same target after the same number of rolls, print the same
\* result line, and once returned: natural gives replay false and win true,
\* crap-out gives replay true and win false, and after the point phase both
\* booleans are whether the last sum is the target.
C4_SideBySide ==
    /\ wpc = rpc
    /\ wrolls = rrolls
    /\ wtarget = rtarget
    /\ wmsg = rmsg
    /\ wpc = "ret" =>
        /\ wmsg \in {"natural", "craps", "pass", "sevenout"}
        /\ wmsg = "natural" => (replay = FALSE /\ win = TRUE)
        /\ wmsg = "craps" => (replay = TRUE /\ win = FALSE)
        /\ wmsg \in {"pass", "sevenout"} =>
             /\ replay = win
             /\ win = (total = wtarget)
             /\ (wmsg = "pass") = win

C4_Witness ==
    /\ pc = "harness" /\ wpc = "ret" /\ rpc = "ret"
    /\ wmsg = "craps" /\ rmsg = "craps" /\ replay /\ ~win

\* a computeOdds run with numGames >= 1 that no exception has ended
OddsN == IsOdds /\ pc \in {"computeOdds", "exit"} /\ exc = "none" /\ numGames >= 1

\* C5: in computeOdds with numGames >= 1, 0 <= wins <= games returned <= games
\* begun <= numGames; wins changes only when a game returns, by 1 when it was
\* won and by 0 when it was lost; and at the end numGames games have been
\* played and the reported odds is wins / numGames.
C5_OddsCount ==
    /\ [](OddsN =>
            /\ 0 <= wins /\ wins <= played /\ played <= game /\ game <= numGames
            /\ pc = "exit" =>
                 /\ reported
                 /\ played = numGames
                 /\ odds[2] > 0
                 /\ odds[1] * numGames = wins * odds[2])
    /\ [][OddsN =>
            /\ numGames' = numGames
            /\ (wpc = "ret" /\ wpc' = "idle") =>
                 (wins' = wins + (IF win THEN 1 ELSE 0) /\ played' = played + 1)
            /\ ~(wpc = "ret" /\ wpc' = "idle") =>
                 (wins' = wins /\ played' = played)]_vars

\* three games, one of them won
C5_Witness ==
    OddsN /\ pc = "exit" /\ numGames = 3 /\ played = 3 /\ wins = 1 /\ odds = <<1, 3>>

\* C6: computeOdds with numGames <= 0 is rejected with a Degenerate-Input error:
\* no game, no report, no division by zero.
C6_DegenerateRejected ==
    (IsOdds /\ pc = "exit" /\ IsIntLiteral(args[3]) /\ IntValue(args[3]) <= 0) =>
        /\ exc = "DegenerateInput"
        /\ ~reported
        /\ played = 0

\* C7: `odds <arg>` with <arg> no integer ends with an Invalid-Argument error
\* and no game played, not with the ValueError of int() leaving main.
C7_InvalidArgument ==
    (IsOdds /\ pc = "exit" /\ ~IsIntLiteral(args[3])) =>
        /\ exc = "InvalidArgument"
        /\ played = 0

\* C8: point rolls at least once before it returns; each of its rolls leaves
\* it rolling exactly when the sum is neither 7 nor the target; in every state
\* of its loop a roll that does not end the loop is possible (no cap on the
\* iterations); and when the dice do not avoid 7 and the target forever, it
\* returns.
C8_PointLoop ==
    /\ [](wpc = "point" => ENABLED ContinueRoll)
    /\ []((wpc = "ret" /\ wtarget \in PointSet) => wrolls >= 2)
    /\ [][wpc = "point" =>
            (wpc' = "point" <=> (total' # 7 /\ total' # wtarget))]_vars
    /\ (wpc = "point" ~> wpc = "ret")

\* still in the loop when the roll counter has stopped counting
C8_Witness ==
    wpc = "point" /\ wrolls = MaxRolls /\ total # 7 /\ total # wtarget

\* C9: test plays at least one game; when a game returns, another one starts if
\* replay is true (after a crap-out or a pass) and the loop ends if it is false
\* (after a natural or a seven-out); a game starts in the loop only after a
\* game that returned true, and the loop ends only after one that returned false.
C9_TestLoop ==
    /\ []((IsTest /\ pc = "exit") => (played >= 1 /\ replay = FALSE))
    /\ []((pc = "test" /\ rpc = "ret") =>
            /\ rmsg \in {"craps", "pass"} => replay = TRUE
            /\ rmsg \in {"natural", "sevenout"} => replay = FALSE)
    /\ [][(pc = "test" /\ rpc = "ret") =>
            /\ replay = TRUE => (pc' = "test" /\ rpc' = "comeOut")
            /\ replay = FALSE => (pc' = "exit" /\ rpc' = "idle")]_vars
    /\ [][(pc = "test" /\ rpc' = "comeOut" /\ rpc # "comeOut") =>
            (rpc = "ret" /\ replay = TRUE)]_vars

\* a crap-out, a pass, then a seven-out ends the loop
C9_Witness ==
    IsTest /\ pc = "exit" /\ played = 3 /\ rmsg = "sevenout" /\ ~replay

\* C10: after any roll the two throws are in 1..6 and the sum returned is
\* their sum, in 2..12; a game's come-out is its first roll and its sum is the
\* target, so a target is in 2..12.
C10_RollRange ==
    /\ total # 0 =>
        /\ throw1 \in 1..6 /\ throw2 \in 1..6
        /\ total = throw1 + throw2
        /\ total \in 2..12
    /\ wrolls = 0 => (wpc \in {"idle", "comeOut"} /\ wtarget = 0)
    /\ wrolls >= 1 => (wpc \in {"idle", "point", "ret"} /\ wtarget \in 2..12)
    /\ wrolls = 1 => wtarget = total
    /\ rrolls = 0 => (rpc \in {"idle", "comeOut"} /\ rtarget = 0)
    /\ rrolls >= 1 => (rpc \in {"idle", "point", "ret"} /\ rtarget \in 2..12)
    /\ rrolls = 1 => rtarget = total

C10_Witness ==
    pc = "test" /\ rpc = "point" /\ rrolls = 1 /\ throw1 = 6 /\ throw2 = 4 /\ rtarget = 10

====
